---- MODULE Spec2Model ----
(***************************************************************************)
(* BlenderGIS: the scene georeference (geoscene.py, class GeoScene) and    *)
(* the OSM import operators (osm/op_import_osm.py).                        *)
(*                                                                         *)
(* The scene's ID-property store is the function scn: a key is stored iff  *)
(* it is in DOMAIN scn, exactly as `KEY in self.scn` in the source.  The   *)
(* '_RNA_UI' description dictionary is user-interface metadata and is      *)
(* left out.                                                               *)
(***************************************************************************)
EXTENDS Integers, Sequences, FiniteSets, TLC

VARIABLES scn, objects, last, pc, imp

vars == <<scn, objects, last, pc, imp>>

(***************************************************************************)
(* class SK: the scene keys                                                *)
(***************************************************************************)
LAT == "latitude"
LON == "longitude"
CRS == "SRID"
CRSX == "crs x"
CRSY == "crs y"
SCALE == "scale"

(***************************************************************************)
(* Bounds of the model                                                     *)
(***************************************************************************)
MaxCoord == 1
MaxObjects == 1
\* the longest node list of a generated way
MaxPts == 4

(***************************************************************************)
(* Program constants                                                       *)
(***************************************************************************)
LatMin == -90
LatMax == 90
LonMin == -180
LonMax == 180

(***************************************************************************)
(* Input domains                                                           *)
(***************************************************************************)
LonInputs == {-181, 0, 10}
LatInputs == {0, 91}
XInputs == {0, 300}
YInputs == {0}
CRSInputs == {"32631", "EPSG:3857", "bogus"}
ScaleInputs == {2}
MoveInputs == {<<1, -1>>}

Abs(n) == IF n < 0 THEN -n ELSE n

(***************************************************************************)
(* utils.proj (not part of the sources at hand): SRS and reprojPt.         *)
(***************************************************************************)
WGS84 == "EPSG:4326"
UTM31 == "EPSG:32631"
WEBM == "EPSG:3857"
ValidCRS == {UTM31, WEBM, WGS84}
NoCRS == "None"
StoredCRSValues == {UTM31, WEBM, "bogus"}

\* str(SRS(v)): the canonical CRS string, or "" when v does not parse
SRSParse(v) ==
  CASE v = "32631" -> UTM31
    [] v \in ValidCRS -> v
    [] OTHER -> ""

\* SRS.validate(crs)
SRSValidate(crs) == crs \in ValidCRS

\* a failed reprojection is the empty tuple, a success the point <<x, y>>
RPFail == <<>>

\* geographic -> crs
FromGeo(crs, p) ==
  CASE crs = UTM31 -> <<p[1] + 100, p[2] + 50>>
    [] crs = WEBM -> <<0 - p[1], 0 - p[2]>>
    [] OTHER -> p

\* crs -> geographic (exact inverse of FromGeo)
ToGeo(crs, p) ==
  CASE crs = UTM31 -> <<p[1] - 100, p[2] - 50>>
    [] crs = WEBM -> <<0 - p[1], 0 - p[2]>>
    [] OTHER -> p

\* reprojPt(crs1, crs2, x, y); ok = FALSE is an undefined transform
reprojPt(crs1, crs2, x, y, ok) ==
  IF ~ok \/ ~SRSValidate(crs1) \/ ~SRSValidate(crs2)
  THEN RPFail
  ELSE FromGeo(crs2, ToGeo(crs1, <<x, y>>))

(***************************************************************************)
(* The ID-property store                                                   *)
(***************************************************************************)
Put(s, k, v) == [j \in DOMAIN s \cup {k} |-> IF j = k THEN v ELSE s[j]]
Del(s, k) == [j \in DOMAIN s \ {k} |-> s[j]]
EmptyStore == [j \in {} |-> 0]

(***************************************************************************)
(* GeoScene: predicates, on a store s                                      *)
(***************************************************************************)
crsOf(s) == IF CRS \in DOMAIN s THEN s[CRS] ELSE NoCRS
scaleOf(s) == IF SCALE \in DOMAIN s THEN s[SCALE] ELSE 1

hasCRS(s) == CRS \in DOMAIN s
hasValidCRS(s) == IF ~hasCRS(s) THEN FALSE ELSE SRSValidate(crsOf(s))
hasOriginGeo(s) == LAT \in DOMAIN s /\ LON \in DOMAIN s
hasOriginPrj(s) == CRSX \in DOMAIN s /\ CRSY \in DOMAIN s
isGeoref(s) == hasValidCRS(s) /\ hasOriginPrj(s)

\* isBroken without its third case
isBroken_NoGeoCase(s) ==
  \/ (hasCRS(s) /\ ~hasValidCRS(s))
  \/ (~hasCRS(s) /\ (hasOriginPrj(s) \/ hasOriginGeo(s)))

isBroken(s) ==
  \/ (hasCRS(s) /\ ~hasValidCRS(s))
  \/ (~hasCRS(s) /\ (hasOriginPrj(s) \/ hasOriginGeo(s)))
  \/ (hasCRS(s) /\ hasOriginGeo(s) /\ ~hasOriginPrj(s))

(***************************************************************************)
(* GeoScene: deleters                                                      *)
(***************************************************************************)
DelOriginGeo(s) == Del(Del(s, LAT), LON)
DelOriginPrj(s) == Del(Del(s, CRSX), CRSY)
\* delOrigin that forgets the geographic origin
DelOrigin_PrjOnly(s) == DelOriginPrj(s)

DelOrigin(s) == DelOriginPrj(DelOriginGeo(s))

(***************************************************************************)
(* GeoScene: setters.  Each operator gives the outcome of the call as a    *)
(* record [s: the store afterwards, res: "ok" or the error raised,         *)
(* warn: a warning was printed].  A warning is printed exactly in the two  *)
(* `except Exception` handlers of setOriginGeo and setOriginPrj.           *)
(***************************************************************************)
Out(s, res, warn) == [s |-> s, res |-> res, warn |-> warn]

lonOK(v) == LonMin <= v /\ v <= LonMax
latOK(v) == LatMin <= v /\ v <= LatMax

\* self.lon, self.lat = lon, lat : two property sets, lon first
SetLonLat(s, lon, lat) ==
  IF ~lonOK(lon) THEN Out(s, "LongitudeOutOfRange", FALSE)
  ELSE IF ~latOK(lat) THEN Out(Put(s, LON, lon), "LatitudeOutOfRange", FALSE)
  ELSE Out(Put(Put(s, LON, lon), LAT, lat), "ok", FALSE)

SetXY(s, x, y) == Put(Put(s, CRSX, x), CRSY, y)

\* setOriginGeo that keeps the stored projected origin when the
\* reprojection fails
SetOriginGeo_KeepPrj(s, lon, lat, ok) ==
  LET a == SetLonLat(s, lon, lat)
      r == reprojPt(WGS84, crsOf(a.s), lon, lat, ok)
  IN  IF a.res # "ok" THEN a
      ELSE IF r = RPFail THEN Out(a.s, "ok", TRUE)
      ELSE Out(SetXY(a.s, r[1], r[2]), "ok", FALSE)

SetOriginGeo(s, lon, lat, ok) ==
  LET a == SetLonLat(s, lon, lat)
      r == reprojPt(WGS84, crsOf(a.s), lon, lat, ok)
  IN  IF a.res # "ok" THEN a
      ELSE IF r = RPFail THEN Out(DelOriginPrj(a.s), "ok", TRUE)
      ELSE Out(SetXY(a.s, r[1], r[2]), "ok", FALSE)

SetOriginPrj(s, x, y, ok) ==
  LET s1 == SetXY(s, x, y)
      r == reprojPt(crsOf(s1), WGS84, x, y, ok)
      a == SetLonLat(s1, r[1], r[2])
  IN  IF r = RPFail THEN Out(DelOriginGeo(s1), "ok", TRUE)
      ELSE IF a.res # "ok" THEN Out(DelOriginGeo(a.s), "ok", TRUE)
      ELSE a

\* setCRS that writes the CRS before it updates the origin
SetCRS_CommitFirst(s, v, ok) ==
  LET crs == SRSParse(v)
      s1 == Put(s, CRS, crs)
      rg == reprojPt(WGS84, crs, s[LON], s[LAT], ok)
      rp == reprojPt(crsOf(s), crs, s[CRSX], s[CRSY], ok)
  IN  IF crs = "" THEN Out(s, "InvalidCRS", FALSE)
      ELSE IF hasOriginGeo(s) THEN
             IF rg = RPFail THEN Out(s1, "ReprojectionFailure", FALSE)
             ELSE Out(SetXY(s1, rg[1], rg[2]), "ok", FALSE)
      ELSE IF hasOriginPrj(s) THEN
             IF ~hasValidCRS(s) THEN Out(s1, "CRSUpdateBlocked", FALSE)
             ELSE IF rp = RPFail THEN Out(s1, "ReprojectionFailure", FALSE)
             ELSE Out(SetXY(s1, rp[1], rp[2]), "ok", FALSE)
      ELSE Out(s1, "ok", FALSE)

\* setCRS that re-expresses the projected origin when there is one
SetCRS_FromPrj(s, v, ok) ==
  LET crs == SRSParse(v)
      rg == reprojPt(WGS84, crs, s[LON], s[LAT], ok)
      rp == reprojPt(crsOf(s), crs, s[CRSX], s[CRSY], ok)
  IN  IF crs = "" THEN Out(s, "InvalidCRS", FALSE)
      ELSE IF hasOriginPrj(s) /\ hasValidCRS(s) THEN
             IF rp = RPFail THEN Out(s, "ReprojectionFailure", FALSE)
             ELSE Out(Put(SetXY(s, rp[1], rp[2]), CRS, crs), "ok", FALSE)
      ELSE IF hasOriginGeo(s) THEN
             IF rg = RPFail THEN Out(s, "ReprojectionFailure", FALSE)
             ELSE Out(Put(SetXY(s, rg[1], rg[2]), CRS, crs), "ok", FALSE)
      ELSE IF hasOriginPrj(s) THEN Out(s, "CRSUpdateBlocked", FALSE)
      ELSE Out(Put(s, CRS, crs), "ok", FALSE)

\* setCRS without the test of the current CRS
SetCRS_NoBlock(s, v, ok) ==
  LET crs == SRSParse(v)
      rg == reprojPt(WGS84, crs, s[LON], s[LAT], ok)
      rp == reprojPt(crsOf(s), crs, s[CRSX], s[CRSY], ok)
  IN  IF crs = "" THEN Out(s, "InvalidCRS", FALSE)
      ELSE IF hasOriginGeo(s) THEN
             IF rg = RPFail THEN Out(s, "ReprojectionFailure", FALSE)
             ELSE Out(Put(SetXY(s, rg[1], rg[2]), CRS, crs), "ok", FALSE)
      ELSE IF hasOriginPrj(s) THEN
             IF rp = RPFail THEN Out(s, "ReprojectionFailure", FALSE)
             ELSE Out(Put(SetXY(s, rp[1], rp[2]), CRS, crs), "ok", FALSE)
      ELSE Out(Put(s, CRS, crs), "ok", FALSE)

\* setCRS that leaves the projected origin to a later call
SetCRS_KeepPrj(s, v, ok) ==
  LET crs == SRSParse(v)
      rp == reprojPt(crsOf(s), crs, s[CRSX], s[CRSY], ok)
  IN  IF crs = "" THEN Out(s, "InvalidCRS", FALSE)
      ELSE IF hasOriginGeo(s) THEN Out(Put(s, CRS, crs), "ok", FALSE)
      ELSE IF hasOriginPrj(s) THEN
             IF ~hasValidCRS(s) THEN Out(s, "CRSUpdateBlocked", FALSE)
             ELSE IF rp = RPFail THEN Out(s, "ReprojectionFailure", FALSE)
             ELSE Out(Put(SetXY(s, rp[1], rp[2]), CRS, crs), "ok", FALSE)
      ELSE Out(Put(s, CRS, crs), "ok", FALSE)

SetCRS(s, v, ok) ==
  LET crs == SRSParse(v)
      rg == reprojPt(WGS84, crs, s[LON], s[LAT], ok)
      rp == reprojPt(crsOf(s), crs, s[CRSX], s[CRSY], ok)
  IN  IF crs = "" THEN Out(s, "InvalidCRS", FALSE)
      ELSE IF hasOriginGeo(s) THEN
             IF rg = RPFail THEN Out(s, "ReprojectionFailure", FALSE)
             ELSE Out(Put(SetXY(s, rg[1], rg[2]), CRS, crs), "ok", FALSE)
      ELSE IF hasOriginPrj(s) THEN
             IF ~hasValidCRS(s) THEN Out(s, "CRSUpdateBlocked", FALSE)
             ELSE IF rp = RPFail THEN Out(s, "ReprojectionFailure", FALSE)
             ELSE Out(Put(SetXY(s, rp[1], rp[2]), CRS, crs), "ok", FALSE)
      ELSE Out(Put(s, CRS, crs), "ok", FALSE)

\* the moved origin without the scale
MovedOrigin_Unscaled(s, dx, dy, useScale) == <<s[CRSX] + dx, s[CRSY] + dy>>

\* the origin moveOriginPrj hands to setOriginPrj
MovedOrigin(s, dx, dy, useScale) ==
  IF useScale
  THEN <<s[CRSX] + dx * scaleOf(s), s[CRSY] + dy * scaleOf(s)>>
  ELSE <<s[CRSX] + dx, s[CRSY] + dy>>

MoveOriginPrj(s, dx, dy, useScale, ok) ==
  IF ~hasOriginPrj(s) THEN Out(s, "TypeError", FALSE)
  ELSE LET p == MovedOrigin(s, dx, dy, useScale)
       IN  SetOriginPrj(s, p[1], p[2], ok)

\* for obj in self.scn.objects: obj.location.x -= dx; obj.location.y -= dy
ShiftObjects(objs, dx, dy) ==
  [i \in DOMAIN objs |-> [objs[i] EXCEPT !.x = @ - dx, !.y = @ - dy]]

(***************************************************************************)
(* osm/op_import_osm.py: module data                                       *)
(***************************************************************************)
osmkeys == {"building", "highway", "landuse", "leisure", "natural", "railway",
            "waterway", "source=Bing"}

closedWaysArePolygons == {"aeroway", "amenity", "boundary", "building", "craft",
  "geological", "historic", "landuse", "leisure", "military", "natural",
  "office", "place", "shop", "sport", "tourism"}

MaxExtent == 20000

(***************************************************************************)
(* The parsed dataset (overpy result): nodes, ways, relations, bounds.     *)
(* tags is a function from keys to values.                                 *)
(***************************************************************************)
NoTags == [k \in {} |-> ""]
Node(id, lon, lat, tags) == [id |-> id, lon |-> lon, lat |-> lat, tags |-> tags]
Way(id, nodes, tags) == [id |-> id, nodes |-> nodes, tags |-> tags]
Relation(id, members, tags) == [id |-> id, members |-> members, tags |-> tags]

NoResult ==
  [bounds |-> [minlon |-> 0, minlat |-> 0, maxlon |-> 0, maxlat |-> 0],
   nodes |-> <<>>, ways |-> <<>>, relations |-> <<>>]

\* a block: a closed building, an open named street along it, a tree
DS1 ==
  [bounds |-> [minlon |-> 0, minlat |-> 0, maxlon |-> 2, maxlat |-> 2],
   nodes |-> << Node(1, 0, 0, NoTags), Node(2, 2, 0, NoTags),
                Node(3, 2, 2, NoTags), Node(4, 1, 1, [natural |-> "tree"]) >>,
   ways |-> << Way(10, <<1, 2, 3, 1>>, [building |-> "yes"]),
               Way(11, <<1, 2, 3>>, [highway |-> "residential", name |-> "Main"]) >>,
   relations |-> << Relation(20, <<10, 11>>, [name |-> "Block"]),
                    Relation(21, <<11>>, NoTags) >>]

\* a closed building way that folds back on itself, then a street
DS2 ==
  [bounds |-> [minlon |-> 0, minlat |-> 0, maxlon |-> 2, maxlat |-> 0],
   nodes |-> << Node(1, 0, 0, NoTags), Node(2, 2, 0, [highway |-> "stop"]) >>,
   ways |-> << Way(12, <<1, 2, 1>>, [building |-> "yes", highway |-> "service"]),
               Way(13, <<2, 1>>, [highway |-> "residential"]) >>,
   relations |-> <<>>]

Datasets == {DS1, DS2}

\* three streets and a relation over two of them; way 32 carries two of the
\* keys a tag filter can select
DS3 ==
  [bounds |-> [minlon |-> 0, minlat |-> 0, maxlon |-> 1, maxlat |-> 1],
   nodes |-> << Node(1, 0, 0, NoTags), Node(2, 1, 0, NoTags),
                Node(3, 1, 1, NoTags), Node(4, 0, 1, NoTags) >>,
   ways |-> << Way(30, <<1, 2, 3>>, [highway |-> "residential", name |-> "Main"]),
               Way(31, <<3, 4>>, [highway |-> "residential"]),
               Way(32, <<1, 2>>, [building |-> "yes", highway |-> "service"]) >>,
   relations |-> << Relation(40, <<30, 31>>, [name |-> "Route"]),
                    Relation(41, <<31>>, NoTags) >>]

\* the unit square as a closed building way, in both windings
DS4 ==
  [bounds |-> [minlon |-> 0, minlat |-> 0, maxlon |-> 1, maxlat |-> 1],
   nodes |-> << Node(1, 0, 0, NoTags), Node(2, 1, 0, NoTags),
                Node(3, 1, 1, NoTags), Node(4, 0, 1, NoTags) >>,
   ways |-> << Way(50, <<1, 2, 3, 4, 1>>, [building |-> "yes"]),
               Way(51, <<1, 4, 3, 2, 1>>, [building |-> "yes"]) >>,
   relations |-> <<>>]

\* three corners of a unit square; the last one is a tagged node
GridNodes ==
  << Node(1, 0, 0, NoTags), Node(2, 1, 0, NoTags),
     Node(3, 1, 1, [highway |-> "stop"]) >>

\* the node lists a way over the corners can have
NodeSeqs == UNION {[1..n -> 1..3] : n \in 1..MaxPts}

WayTags == {[building |-> "yes"], [highway |-> "residential"]}

\* a dataset of one way over the corners, in a relation with the tagged node
WayDS(seq, tags) ==
  [bounds |-> [minlon |-> 0, minlat |-> 0, maxlon |-> 1, maxlat |-> 1],
   nodes |-> GridNodes,
   ways |-> << Way(10, seq, tags) >>,
   relations |-> << Relation(20, <<10, 3>>, NoTags) >>]

\* closed ways of four points with one key each: a riverbank, a forest, a lake
DS5 ==
  [bounds |-> [minlon |-> 0, minlat |-> 0, maxlon |-> 1, maxlat |-> 1],
   nodes |-> << Node(1, 0, 0, NoTags), Node(2, 1, 0, NoTags), Node(3, 1, 1, NoTags) >>,
   ways |-> << Way(60, <<1, 2, 3, 1>>, [landuse |-> "forest"]),
               Way(61, <<1, 2, 3, 1>>, [natural |-> "water"]),
               Way(62, <<1, 2, 3, 1>>, [waterway |-> "riverbank"]) >>,
   relations |-> <<>>]

SeedDatasets ==
  {DS1, DS2, DS3, DS4, DS5}
    \cup {WayDS(seq, tags) : seq \in NodeSeqs, tags \in WayTags}

\* the node of the dataset with the given id (way.nodes resolves references)
NodeById(result, id) ==
  result.nodes[CHOOSE i \in DOMAIN result.nodes : result.nodes[i].id = id]

\* pts = [(float(node.lon), float(node.lat)) for node in way.nodes]
WayPts(result, way) ==
  [i \in DOMAIN way.nodes |->
     <<NodeById(result, way.nodes[i]).lon, NodeById(result, way.nodes[i]).lat>>]

\* extags = list(tags.keys()) + [k + '=' + v for k, v in tags.items()]
Extags(tags) == DOMAIN tags \cup {k \o "=" \o tags[k] : k \in DOMAIN tags}

\* waysNodesId = [node.id for way in result.ways for node in way.nodes]
\* no node taken as the node of a way
waysNodesId_None(result) == {}

waysNodesId(result) ==
  UNION {{result.ways[w].nodes[i] : i \in DOMAIN result.ways[w].nodes} :
           w \in DOMAIN result.ways}

\* self.filterTags and not any(tag in self.filterTags for tag in extags)
FilteredOut(filterTags, tags) ==
  filterTags # {} /\ Extags(tags) \cap filterTags = {}

\* tag.startswith('name')
StartsWithName(tag) == Len(tag) >= 4 /\ SubSeq(tag, 1, 4) = "name"

\* tags.get('name', default)
TagName(tags, default) == IF "name" \in DOMAIN tags THEN tags["name"] ELSE default

(***************************************************************************)
(* seed: classification of the point list                                  *)
(***************************************************************************)
\* closed whatever the tags are
SeedClosed_AnyClosed(pts, tags) ==
  /\ Len(pts) > 1
  /\ pts[1] = pts[Len(pts)]

SeedClosed(pts, tags) ==
  /\ Len(pts) > 1
  /\ pts[1] = pts[Len(pts)]
  /\ DOMAIN tags \cap closedWaysArePolygons # {}

SeedType(pts, tags) ==
  IF Len(pts) > 1
  THEN IF SeedClosed(pts, tags) THEN "Areas" ELSE "Ways"
  ELSE "Nodes"

\* pts.pop() for a closed way
SeedPts(pts, tags) ==
  IF SeedClosed(pts, tags) THEN SubSeq(pts, 1, Len(pts) - 1) ELSE pts

\* pts = rprj.pts(pts); pts = [(v[0]-dx, v[1]-dy, 0) for v in pts]
ShiftPts(pts, dstCRS, dx, dy) ==
  [i \in DOMAIN pts |->
     <<FromGeo(dstCRS, pts[i])[1] - dx, FromGeo(dstCRS, pts[i])[2] - dy>>]

(***************************************************************************)
(* seed: the bmesh.  Vertices are points, edges and faces hold 0-based     *)
(* vertex indices.                                                         *)
(***************************************************************************)
NewMesh == [verts |-> <<>>, edges |-> <<>>, faces |-> <<>>]

Reverse(s) == [i \in DOMAIN s |-> s[Len(s) + 1 - i]]

RECURSIVE Area2(_, _)
\* twice the signed area of the polygon v (positive: anticlockwise), from vertex i on
Area2(v, i) ==
  IF i > Len(v) THEN 0
  ELSE LET j == IF i = Len(v) THEN 1 ELSE i + 1
       IN  v[i][1] * v[j][2] - v[j][1] * v[i][2] + Area2(v, i + 1)

\* bm.faces.new(verts) needs three vertices or more
FaceFails(pts, closed) == closed /\ Len(pts) = 2

\* the bmesh of seed without the test of the normal
BuildMesh_NoFlip(pts, closed) ==
  IF Len(pts) = 1 THEN
    [verts |-> pts, edges |-> <<>>, faces |-> <<>>]
  ELSE IF closed THEN
    [verts |-> pts,
     edges |-> [i \in DOMAIN pts |-> <<i - 1, IF i = Len(pts) THEN 0 ELSE i>>],
     faces |-> << [i \in DOMAIN pts |-> i - 1] >>]
  ELSE IF Len(pts) > 1 THEN
    [verts |-> [k \in 1..(2 * (Len(pts) - 1)) |-> pts[((k + 1) \div 2) + ((k + 1) % 2)]],
     edges |-> [i \in 1..(Len(pts) - 1) |-> <<2 * i - 2, 2 * i - 1>>],
     faces |-> <<>>]
  ELSE NewMesh

\* the bmesh of seed with a way built as one chain over its points
BuildMesh_Chain(pts, closed) ==
  IF Len(pts) = 1 THEN
    [verts |-> pts, edges |-> <<>>, faces |-> <<>>]
  ELSE IF closed THEN
    LET idx == [i \in DOMAIN pts |-> i - 1]
    IN  [verts |-> pts,
         edges |-> [i \in DOMAIN pts |-> <<i - 1, IF i = Len(pts) THEN 0 ELSE i>>],
         faces |-> << IF Area2(pts, 1) < 0 THEN Reverse(idx) ELSE idx >>]
  ELSE IF Len(pts) > 1 THEN
    [verts |-> pts,
     edges |-> [i \in 1..(Len(pts) - 1) |-> <<i - 1, i>>],
     faces |-> <<>>]
  ELSE NewMesh

BuildMesh(pts, closed) ==
  IF Len(pts) = 1 THEN
    [verts |-> pts, edges |-> <<>>, faces |-> <<>>]
  ELSE IF closed THEN
    LET idx == [i \in DOMAIN pts |-> i - 1]
    IN  [verts |-> pts,
         edges |-> [i \in DOMAIN pts |-> <<i - 1, IF i = Len(pts) THEN 0 ELSE i>>],
         faces |-> << IF Area2(pts, 1) < 0 THEN Reverse(idx) ELSE idx >>]
  ELSE IF Len(pts) > 1 THEN
    [verts |-> [k \in 1..(2 * (Len(pts) - 1)) |-> pts[((k + 1) \div 2) + ((k + 1) % 2)]],
     edges |-> [i \in 1..(Len(pts) - 1) |-> <<2 * i - 2, 2 * i - 1>>],
     faces |-> <<>>]
  ELSE NewMesh

\* joinBmesh(src_bm, dest_bm)
joinBmesh(src, dest) ==
  LET off == Len(dest.verts)
  IN  [verts |-> dest.verts \o src.verts,
       edges |-> dest.edges \o [i \in DOMAIN src.edges |->
                    <<src.edges[i][1] + off, src.edges[i][2] + off>>],
       faces |-> dest.faces \o [i \in DOMAIN src.faces |->
                    [j \in DOMAIN src.faces[i] |-> src.faces[i][j] + off]]]

(***************************************************************************)
(* seed: output.  In separated mode every feature is linked to the scene   *)
(* as an object of its own; in grouped mode it is joined to the bmeshes    *)
(* and its vertex indices are recorded in vgroupsObj.                      *)
(***************************************************************************)
NoGroups == [n \in {} |-> <<>>]
NoMeshes == [n \in {} |-> NewMesh]
NoGroupsObj == [n \in {} |-> NoGroups]

\* the data of a new object: bpy.data.meshes.new, bpy.data.objects.new, the
\* custom properties and the vertex groups
Object(name, mesh, id, tags, vgroups) ==
  [name |-> name, mesh |-> mesh, id |-> id, tags |-> tags, vgroups |-> vgroups]

\* scn.objects.link(obj): what the scene keeps of the object for the
\* operations that follow (location, 'id' property, groups)
Linked(obj) == [name |-> obj.name, x |-> 0, y |-> 0, id |-> obj.id, groups |-> {}]

LinkAll(objs, new) == objs \o [i \in DOMAIN new |-> Linked(new[i])]

\* d.setdefault(name, default)
SetDefault(d, name, default) == IF name \in DOMAIN d THEN d[name] ELSE default

\* vgroups.setdefault(name, []).extend(vidx)
Extend(vgroups, name, vidx) ==
  [n \in DOMAIN vgroups \cup {name} |->
     IF n = name THEN SetDefault(vgroups, n, <<>>) \o vidx ELSE vgroups[n]]

RECURSIVE ExtendAll(_, _, _)
ExtendAll(vgroups, names, vidx) ==
  IF names = {} THEN vgroups
  ELSE LET n == CHOOSE m \in names : TRUE
       IN  ExtendAll(Extend(vgroups, n, vidx), names \ {n}, vidx)

\* the id of the relation whatever its tags
RelName_IdOnly(rel) == ToString(rel.id)

\* rel.tags.get('name', str(rel.id))
RelName(rel) == TagName(rel.tags, ToString(rel.id))

RECURSIVE RelMembers(_, _, _, _, _)
\* for member in rel.members: if id == member.ref: extend
RelMembers(vgroups, rel, m, id, vidx) ==
  IF m > Len(rel.members) THEN vgroups
  ELSE RelMembers(IF rel.members[m] = id
                  THEN Extend(vgroups, "Relation:" \o RelName(rel), vidx)
                  ELSE vgroups,
                  rel, m + 1, id, vidx)

RECURSIVE RelGroups(_, _, _, _, _)
\* for rel in result.relations: ...
RelGroups(vgroups, rels, r, id, vidx) ==
  IF r > Len(rels) THEN vgroups
  ELSE RelGroups(RelMembers(vgroups, rels[r], 1, id, vidx), rels, r + 1, id, vidx)

\* the keys k of self.filterTags with k in extags
Matching(filterTags, tags) == filterTags \cap Extags(tags)

\* the container the vertex groups of the feature go to: the last name the
\* loop over self.filterTags assigned (klast), or the type without filter
SeedObjName(filterTags, type, klast) ==
  IF filterTags # {} THEN type \o ":" \o klast ELSE type

\* the bmeshes after the joins of one feature
SeedJoin(bmeshes, filterTags, tags, type, bm) ==
  LET names == IF filterTags # {}
               THEN {type \o ":" \o k : k \in Matching(filterTags, tags)}
               ELSE {type}
  IN  [n \in DOMAIN bmeshes \cup names |->
         IF n \in names THEN joinBmesh(bm, SetDefault(bmeshes, n, NewMesh))
         ELSE bmeshes[n]]

\* the indices counted from one
SeedVidx_OneBased(bmeshes, objName, bm) ==
  [i \in DOMAIN bm.verts |-> i + Len(SetDefault(bmeshes, objName, NewMesh).verts)]

\* vidx = [v.index + offset for v in bm.verts]
SeedVidx(bmeshes, objName, bm) ==
  [i \in DOMAIN bm.verts |-> (i - 1) + Len(SetDefault(bmeshes, objName, NewMesh).verts)]

\* the vertex groups of container objName after the feature
SeedVgroups(vgroups, featureType, relations, id, tags, vidx) ==
  LET g1 == ExtendAll(vgroups,
                      {"Tag:" \o tg : tg \in {e \in Extags(tags) : ~StartsWithName(e)}},
                      vidx)
      g2 == IF "name" \in DOMAIN tags
            THEN Extend(g1, "Name:" \o tags["name"], vidx)
            ELSE g1
  IN  IF "relation" \in featureType
      THEN RelGroups(g2, relations, 1, id, vidx)
      ELSE g2

(***************************************************************************)
(* One import invocation                                                   *)
(***************************************************************************)
Config(separate, filterTags, featureType) ==
  [separate |-> separate, filterTags |-> filterTags, featureType |-> featureType]

Configs ==
  { Config(FALSE, {}, {"way"}),
    Config(FALSE, {"building", "highway"}, {"node", "way", "relation"}),
    Config(TRUE, {}, {"node", "way", "relation"}) }

SeedConfigs ==
  Configs \cup { Config(FALSE, {}, {"node", "way", "relation"}),
                 Config(TRUE, {"building", "highway"}, {"node"}) }

NoImport ==
  [kind |-> "none", cfg |-> Config(FALSE, {}, {"way"}), result |-> NoResult,
   i |-> 0, bmeshes |-> NoMeshes, vgroupsObj |-> NoGroupsObj,
   report |-> "", status |-> "none", parsed |-> FALSE, fetched |-> FALSE,
   dims |-> <<0, 0>>, built |-> <<>>, skipped |-> <<>>, failed |-> <<>>,
   out |-> <<>>,
   scn0 |-> EmptyStore]

NewImport(kind, cfg, s) ==
  [NoImport EXCEPT !.kind = kind, !.cfg = cfg, !.status = "running", !.scn0 = s]

\* self.report({'ERROR'}, msg); return {'FINISHED'}
Reported(im, msg) == [im EXCEPT !.report = msg, !.status = "finished"]

\* an exception leaves the operator
Raised(im, exc) == [im EXCEPT !.report = exc, !.status = "exception"]

MsgInvalidFile == "Invalid file"
MsgBroken == "Scene georef is broken, please fix it beforehand"
MsgNotGeoref == "Scene is not georef"
MsgTopOrtho == "View3d must be in top ortho"
MsgTooLarge == "Too large extent"
MsgQueryFailed == "Overpass query failed"
MsgReproj == "Unable to reproject data. "

\* seed(id, tags, pts) on the store s: the import record and the objects
\* afterwards; exc is set when an exception leaves seed
Seed(im, objs, s, id, tags, pts0, klast, ok) ==
  LET type == SeedType(pts0, tags)
      closed == SeedClosed(pts0, tags)
      pts == ShiftPts(SeedPts(pts0, tags), crsOf(s), s[CRSX], s[CRSY])
      bm == BuildMesh(pts, closed)
      objName == SeedObjName(im.cfg.filterTags, type, klast)
      vidx == SeedVidx(im.bmeshes, objName, bm)
      vgroups == SeedVgroups(SetDefault(im.vgroupsObj, objName, NoGroups),
                             im.cfg.featureType, im.result.relations, id, tags, vidx)
      raised == \/ ~ok
                \/ ~hasOriginPrj(s)
                \/ FaceFails(SeedPts(pts0, tags), closed)
                \/ (~im.cfg.separate /\ im.cfg.filterTags # {}
                      /\ Matching(im.cfg.filterTags, tags) = {})
  IN  IF raised THEN
        [imp |-> Raised([im EXCEPT !.failed = Append(@, id)], "exception in seed"),
         objects |-> objs, exc |-> TRUE]
      ELSE IF im.cfg.separate THEN
        LET obj == Object(TagName(tags, ToString(id)), bm, ToString(id), tags, NoGroups)
        IN  [imp |-> [im EXCEPT !.built = Append(@, id), !.out = Append(@, obj)],
             objects |-> LinkAll(objs, <<obj>>),
             exc |-> FALSE]
      ELSE
        [imp |-> [im EXCEPT
                    !.built = Append(@, id),
                    !.bmeshes = SeedJoin(im.bmeshes, im.cfg.filterTags, tags, type, bm),
                    !.vgroupsObj = [n \in DOMAIN im.vgroupsObj \cup {objName} |->
                                      IF n = objName THEN vgroups ELSE im.vgroupsObj[n]]],
         objects |-> objs,
         exc |-> FALSE]

\* the choices of the last matching key of a feature
LastKeys(im, tags) ==
  IF im.cfg.filterTags # {} /\ Matching(im.cfg.filterTags, tags) # {}
  THEN Matching(im.cfg.filterTags, tags)
  ELSE {""}

(***************************************************************************)
(* The state                                                               *)
(*   scn      the ID-property store of the scene                           *)
(*   objects  scn.objects: of every object its name, location, 'id'        *)
(*            property and groups; the mesh, tag properties and vertex     *)
(*            groups of the objects an import creates are in imp.out       *)
(*   last     the GeoScene call made by the latest step (NoCall: none):    *)
(*            operation, arguments, outcome                                *)
(*   pc       position of the running import operator, "idle" when none    *)
(*   imp      the running (or last) import invocation                      *)
(***************************************************************************)
NoCall == [op |-> "none", args |-> <<>>, res |-> "ok", warn |-> FALSE, rpf |-> FALSE]

Call(op, args, o, rpf) ==
  [op |-> op, args |-> args, res |-> o.res, warn |-> o.warn, rpf |-> rpf]

\* the reprojector was reached by the call and failed
GeoRpFailed(s, lon, lat, ok) ==
  /\ lonOK(lon) /\ latOK(lat)
  /\ reprojPt(WGS84, crsOf(s), lon, lat, ok) = RPFail

PrjRpFailed(s, x, y, ok) == reprojPt(crsOf(s), WGS84, x, y, ok) = RPFail

InWindow(p) == Abs(p[1]) <= MaxCoord /\ Abs(p[2]) <= MaxCoord

setOriginGeo(lon, lat, ok) ==
  /\ pc = "idle"
  /\ LET o == SetOriginGeo(scn, lon, lat, ok)
     IN  /\ scn' = o.s
         /\ last' = Call("setOriginGeo", <<lon, lat>>, o, GeoRpFailed(scn, lon, lat, ok))
  /\ UNCHANGED <<objects, pc, imp>>

setOriginPrj(x, y, ok) ==
  /\ pc = "idle"
  /\ LET o == SetOriginPrj(scn, x, y, ok)
     IN  /\ scn' = o.s
         /\ last' = Call("setOriginPrj", <<x, y>>, o, PrjRpFailed(scn, x, y, ok))
  /\ UNCHANGED <<objects, pc, imp>>

moveOriginPrj(dx, dy, useScale, updObjLoc, ok) ==
  /\ pc = "idle"
  /\ hasOriginPrj(scn) => InWindow(MovedOrigin(scn, dx, dy, useScale))
  /\ \A i \in DOMAIN objects : InWindow(<<objects[i].x - dx, objects[i].y - dy>>)
  /\ LET o == MoveOriginPrj(scn, dx, dy, useScale, ok)
         p == MovedOrigin(scn, dx, dy, useScale)
     IN  /\ scn' = o.s
         /\ last' = Call("moveOriginPrj", <<dx, dy, useScale, updObjLoc>>, o,
                         hasOriginPrj(scn) /\ PrjRpFailed(scn, p[1], p[2], ok))
         /\ objects' = IF o.res = "ok" /\ updObjLoc
                       THEN ShiftObjects(objects, dx, dy)
                       ELSE objects
  /\ UNCHANGED <<pc, imp>>

delOriginGeo ==
  /\ pc = "idle"
  /\ scn' = DelOriginGeo(scn)
  /\ last' = Call("delOriginGeo", <<>>, Out(scn, "ok", FALSE), FALSE)
  /\ UNCHANGED <<objects, pc, imp>>

delOriginPrj ==
  /\ pc = "idle"
  /\ scn' = DelOriginPrj(scn)
  /\ last' = Call("delOriginPrj", <<>>, Out(scn, "ok", FALSE), FALSE)
  /\ UNCHANGED <<objects, pc, imp>>

delOrigin ==
  /\ pc = "idle"
  /\ scn' = DelOrigin(scn)
  /\ last' = Call("delOrigin", <<>>, Out(scn, "ok", FALSE), FALSE)
  /\ UNCHANGED <<objects, pc, imp>>

setCRS(v, ok) ==
  /\ pc = "idle"
  /\ LET o == SetCRS(scn, v, ok)
     IN  /\ scn' = o.s
         /\ last' = Call("setCRS", <<v>>, o, o.res = "ReprojectionFailure")
  /\ UNCHANGED <<objects, pc, imp>>

\* scale.setter
setScale(v) ==
  /\ pc = "idle"
  /\ scn' = Put(scn, SCALE, v)
  /\ last' = Call("setScale", <<v>>, Out(scn, "ok", FALSE), FALSE)
  /\ UNCHANGED <<objects, pc, imp>>

\* GEOSCENE_CLEAR_GEOREF.execute: delOrigin, then del geoscn.crs
clearGeoref ==
  /\ pc = "idle"
  /\ scn' = Del(DelOrigin(scn), CRS)
  /\ last' = Call("clearGeoref", <<>>, Out(scn, "ok", FALSE), FALSE)
  /\ UNCHANGED <<objects, pc, imp>>

GeoNext ==
  \/ \E lon \in LonInputs, lat \in LatInputs, ok \in BOOLEAN : setOriginGeo(lon, lat, ok)
  \/ \E x \in XInputs, y \in YInputs, ok \in BOOLEAN : setOriginPrj(x, y, ok)
  \/ \E d \in MoveInputs, useScale \in BOOLEAN, updObjLoc \in BOOLEAN, ok \in BOOLEAN :
        moveOriginPrj(d[1], d[2], useScale, updObjLoc, ok)
  \/ delOriginGeo
  \/ delOriginPrj
  \/ delOrigin
  \/ \E v \in CRSInputs, ok \in BOOLEAN : setCRS(v, ok)
  \/ \E v \in ScaleInputs : setScale(v)
  \/ clearGeoref

(***************************************************************************)
(* OSM_FILE.execute, step by step                                          *)
(***************************************************************************)
\* os.path.exists(self.filepath)
fileExecute(exists, cfg) ==
  /\ pc = "idle"
  /\ Len(objects) < MaxObjects
  /\ IF exists
     THEN /\ imp' = NewImport("file", cfg, scn)
          /\ pc' = "Validate"
     ELSE /\ imp' = Reported(NewImport("file", cfg, scn), MsgInvalidFile)
          /\ pc' = "done"
  /\ last' = NoCall
  /\ UNCHANGED <<scn, objects>>

\* if geoscn.isBroken: report, return
Validate ==
  /\ pc = "Validate"
  /\ IF isBroken(scn)
     THEN /\ imp' = Reported(imp, MsgBroken)
          /\ pc' = "done"
     ELSE /\ pc' = "Parse"
          /\ UNCHANGED imp
  /\ last' = NoCall
  /\ UNCHANGED <<scn, objects>>

\* result = api.parse_xml(self.filepath)
Parse(ds, ok) ==
  /\ pc = "Parse"
  /\ IF ok
     THEN /\ imp' = [imp EXCEPT !.result = ds, !.parsed = TRUE]
          /\ pc' = "EstablishCRS"
     ELSE /\ imp' = Raised(imp, "exception in parse_xml")
          /\ pc' = "done"
  /\ last' = NoCall
  /\ UNCHANGED <<scn, objects>>

\* lon = (bounds["minlon"] + bounds["maxlon"])/2, the same for lat
Centroid(result) ==
  << (result.bounds.minlon + result.bounds.maxlon) \div 2,
     (result.bounds.minlat + result.bounds.maxlat) \div 2 >>

\* utm.lonlat_to_epsg(lon, lat); "" when the lookup raises
lonlat_to_epsg(lon, lat, ok) == IF ok THEN UTM31 ELSE ""

\* the CRS step without its test: the CRS is set whatever the scene holds
EstablishCRS_Always(utmOk, ok) ==
  /\ pc = "EstablishCRS"
  /\ LET c == Centroid(imp.result)
         v == lonlat_to_epsg(c[1], c[2], utmOk)
         o == SetCRS(scn, v, ok)
     IN  /\ scn' = o.s
         /\ last' = IF v = "" THEN NoCall
                    ELSE Call("setCRS", <<v>>, o, o.res = "ReprojectionFailure")
         /\ IF o.res = "ok"
            THEN pc' = "EstablishOrigin" /\ UNCHANGED imp
            ELSE pc' = "done" /\ imp' = Reported(imp, o.res)
  /\ UNCHANGED objects

\* if not geoscn.hasCRS: try: geoscn.crs = utm.lonlat_to_epsg(lon, lat)
EstablishCRS(utmOk, ok) ==
  /\ pc = "EstablishCRS"
  /\ IF ~hasCRS(scn)
     THEN LET c == Centroid(imp.result)
              v == lonlat_to_epsg(c[1], c[2], utmOk)
              o == SetCRS(scn, v, ok)
          IN  /\ scn' = o.s
              /\ last' = IF v = "" THEN NoCall
                         ELSE Call("setCRS", <<v>>, o, o.res = "ReprojectionFailure")
              /\ IF o.res = "ok"
                 THEN pc' = "EstablishOrigin" /\ UNCHANGED imp
                 ELSE pc' = "done" /\ imp' = Reported(imp, o.res)
     ELSE /\ pc' = "EstablishOrigin"
          /\ last' = NoCall
          /\ UNCHANGED <<scn, imp>>
  /\ UNCHANGED objects

\* the origin step with its test inverted: a missing origin stays missing
EstablishOrigin_Inverted(ok1, ok2) ==
  /\ pc = "EstablishOrigin"
  /\ IF hasOriginPrj(scn)
     THEN LET c == Centroid(imp.result)
              r == reprojPt(WGS84, crsOf(scn), c[1], c[2], ok1)
              o == SetOriginPrj(scn, r[1], r[2], ok2)
          IN  IF r = RPFail
              THEN /\ imp' = Raised(imp, "exception in reprojPt")
                   /\ pc' = "done"
                   /\ last' = NoCall
                   /\ UNCHANGED scn
              ELSE /\ scn' = o.s
                   /\ last' = Call("setOriginPrj", <<r[1], r[2]>>, o,
                                   PrjRpFailed(scn, r[1], r[2], ok2))
                   /\ pc' = "Build"
                   /\ UNCHANGED imp
     ELSE /\ pc' = "Build"
          /\ last' = NoCall
          /\ UNCHANGED <<scn, imp>>
  /\ UNCHANGED objects

\* if not geoscn.hasOriginPrj: x, y = reprojPt(4326, geoscn.crs, lon, lat);
\* geoscn.setOriginPrj(x, y)
EstablishOrigin(ok1, ok2) ==
  /\ pc = "EstablishOrigin"
  /\ IF ~hasOriginPrj(scn)
     THEN LET c == Centroid(imp.result)
              r == reprojPt(WGS84, crsOf(scn), c[1], c[2], ok1)
              o == SetOriginPrj(scn, r[1], r[2], ok2)
          IN  IF r = RPFail
              THEN /\ imp' = Raised(imp, "exception in reprojPt")
                   /\ pc' = "done"
                   /\ last' = NoCall
                   /\ UNCHANGED scn
              ELSE /\ scn' = o.s
                   /\ last' = Call("setOriginPrj", <<r[1], r[2]>>, o,
                                   PrjRpFailed(scn, r[1], r[2], ok2))
                   /\ pc' = "Build"
                   /\ UNCHANGED imp
     ELSE /\ pc' = "Build"
          /\ last' = NoCall
          /\ UNCHANGED <<scn, imp>>
  /\ UNCHANGED objects

(***************************************************************************)
(* OSM_QUERY.invoke and OSM_QUERY.execute, step by step                    *)
(***************************************************************************)
\* invoke: the checks, then the properties dialog leads to execute
queryInvoke(topOrtho, cfg) ==
  /\ pc = "idle"
  /\ Len(objects) < MaxObjects
  /\ LET im == NewImport("query", cfg, scn)
     IN  IF ~topOrtho THEN imp' = Reported(im, MsgTopOrtho) /\ pc' = "done"
         ELSE IF ~isGeoref(scn) THEN imp' = Reported(im, MsgNotGeoref) /\ pc' = "done"
         ELSE IF isBroken(scn) THEN imp' = Reported(im, MsgBroken) /\ pc' = "done"
         ELSE imp' = im /\ pc' = "QueryBBox"
  /\ last' = NoCall
  /\ UNCHANGED <<scn, objects>>

\* execute called without invoke (operator context EXEC_DEFAULT, scripts)
queryExecute(cfg) ==
  /\ pc = "idle"
  /\ Len(objects) < MaxObjects
  /\ imp' = NewImport("query", cfg, scn)
  /\ pc' = "QueryBBox"
  /\ last' = NoCall
  /\ UNCHANGED <<scn, objects>>

DimInputs == {<<20000, 20000>>, <<20001, 100>>, <<100, 20001>>}

\* the extent check on the width alone
TooLarge_WidthOnly(dims) == dims[1] > MaxExtent

\* bbox.dimensions.x > 20000 or bbox.dimensions.y > 20000
TooLarge(dims) == dims[1] > MaxExtent \/ dims[2] > MaxExtent

\* bbox = BBOX.fromTopView(context).toGeo(geoscn); the extent check;
\* bbox = reprojBbox(geoscn.crs, 4326, bbox)
QueryBBox(dims, ok) ==
  /\ pc = "QueryBBox"
  /\ IF ~hasOriginPrj(scn)
     THEN imp' = Raised(imp, "exception in toGeo") /\ pc' = "done"
     ELSE IF TooLarge(dims)
     THEN imp' = Reported([imp EXCEPT !.dims = dims], MsgTooLarge) /\ pc' = "done"
     ELSE IF ~ok \/ ~SRSValidate(crsOf(scn))
     THEN imp' = Raised([imp EXCEPT !.dims = dims], "exception in reprojBbox") /\ pc' = "done"
     ELSE imp' = [imp EXCEPT !.dims = dims] /\ pc' = "Fetch"
  /\ last' = NoCall
  /\ UNCHANGED <<scn, objects>>

\* result = api.query(query)
Fetch(ds, ok) ==
  /\ pc = "Fetch"
  /\ IF ok
     THEN imp' = [imp EXCEPT !.result = ds, !.fetched = TRUE] /\ pc' = "Build"
     ELSE imp' = Reported([imp EXCEPT !.fetched = TRUE], MsgQueryFailed) /\ pc' = "done"
  /\ last' = NoCall
  /\ UNCHANGED <<scn, objects>>

(***************************************************************************)
(* OSM_IMPORT.build, step by step                                          *)
(***************************************************************************)
\* rprj = Reproj(4326, dstCRS)
BuildInit(ok) ==
  /\ pc = "Build"
  /\ IF ok /\ SRSValidate(crsOf(scn))
     THEN imp' = [imp EXCEPT !.i = 1] /\ pc' = "Nodes"
     ELSE imp' = Reported(imp, MsgReproj) /\ pc' = "done"
  /\ last' = NoCall
  /\ UNCHANGED <<scn, objects>>

\* one pass of `for node in result.nodes`
BuildNode(ok) ==
  /\ pc = "Nodes"
  /\ "node" \in imp.cfg.featureType
  /\ imp.i <= Len(imp.result.nodes)
  /\ LET node == imp.result.nodes[imp.i]
         im == [imp EXCEPT !.i = @ + 1]
     IN  IF node.id \in waysNodesId(imp.result) \/ FilteredOut(imp.cfg.filterTags, node.tags)
         THEN /\ imp' = [im EXCEPT !.skipped = Append(@, node.id)]
              /\ UNCHANGED <<objects, pc>>
         ELSE \E klast \in LastKeys(imp, node.tags) :
                LET o == Seed(im, objects, scn, node.id, node.tags,
                              << <<node.lon, node.lat>> >>, klast, ok)
                IN  /\ imp' = o.imp
                    /\ objects' = o.objects
                    /\ pc' = IF o.exc THEN "done" ELSE pc
  /\ last' = NoCall
  /\ UNCHANGED scn

NodesDone ==
  /\ pc = "Nodes"
  /\ "node" \notin imp.cfg.featureType \/ imp.i > Len(imp.result.nodes)
  /\ imp' = [imp EXCEPT !.i = 1]
  /\ pc' = "Ways"
  /\ last' = NoCall
  /\ UNCHANGED <<scn, objects>>

\* one pass of `for way in result.ways`
BuildWay(ok) ==
  /\ pc = "Ways"
  /\ "way" \in imp.cfg.featureType
  /\ imp.i <= Len(imp.result.ways)
  /\ LET way == imp.result.ways[imp.i]
         im == [imp EXCEPT !.i = @ + 1]
     IN  IF FilteredOut(imp.cfg.filterTags, way.tags)
         THEN /\ imp' = [im EXCEPT !.skipped = Append(@, way.id)]
              /\ UNCHANGED <<objects, pc>>
         ELSE \E klast \in LastKeys(imp, way.tags) :
                LET o == Seed(im, objects, scn, way.id, way.tags,
                              WayPts(imp.result, way), klast, ok)
                IN  /\ imp' = o.imp
                    /\ objects' = o.objects
                    /\ pc' = IF o.exc THEN "done" ELSE pc
  /\ last' = NoCall
  /\ UNCHANGED scn

WaysDone ==
  /\ pc = "Ways"
  /\ "way" \notin imp.cfg.featureType \/ imp.i > Len(imp.result.ways)
  /\ pc' = "Finalize"
  /\ last' = NoCall
  /\ UNCHANGED <<scn, objects, imp>>

RECURSIVE Containers(_, _, _)
\* for name, bm in bmeshes.items(): the object and its vertex groups
Containers(bmeshes, vgroupsObj, names) ==
  IF names = {} THEN <<>>
  ELSE LET n == CHOOSE m \in names : TRUE
       IN  << Object(n, bmeshes[n], "", NoTags, SetDefault(vgroupsObj, n, NoGroups)) >>
           \o Containers(bmeshes, vgroupsObj, names \ {n})

\* the relations with a member whose ref is the id of the object
GroupsOf(relations, id) ==
  {RelName(relations[r]) : r \in
     {q \in DOMAIN relations :
        \E m \in DOMAIN relations[q].members : ToString(relations[q].members[m]) = id}}

\* if 'relation' in self.featureType and self.separate: link the objects
LinkGroups(objs, relations) ==
  [i \in DOMAIN objs |->
     [objs[i] EXCEPT !.groups = @ \cup GroupsOf(relations, objs[i].id)]]

Finalize ==
  /\ pc = "Finalize"
  /\ LET new == IF ~imp.cfg.separate
                THEN Containers(imp.bmeshes, imp.vgroupsObj, DOMAIN imp.bmeshes)
                ELSE <<>>
     IN  /\ objects' = IF imp.cfg.separate /\ "relation" \in imp.cfg.featureType
                       THEN LinkGroups(objects, imp.result.relations)
                       ELSE LinkAll(objects, new)
         /\ imp' = [imp EXCEPT !.status = "finished", !.out = @ \o new]
  /\ pc' = "done"
  /\ last' = NoCall
  /\ UNCHANGED scn

\* return {'FINISHED'}, or the exception reaches the caller
Return ==
  /\ pc = "done"
  /\ pc' = "idle"
  /\ imp' = NoImport
  /\ last' = NoCall
  /\ UNCHANGED <<scn, objects>>

ImportNext ==
  \/ \E exists \in BOOLEAN, cfg \in Configs : fileExecute(exists, cfg)
  \/ Validate
  \/ \E ds \in Datasets, ok \in BOOLEAN : Parse(ds, ok)
  \/ \E utmOk \in BOOLEAN, ok \in BOOLEAN : EstablishCRS(utmOk, ok)
  \/ \E ok1 \in BOOLEAN, ok2 \in BOOLEAN : EstablishOrigin(ok1, ok2)
  \/ \E topOrtho \in BOOLEAN, cfg \in Configs : queryInvoke(topOrtho, cfg)
  \/ \E cfg \in Configs : queryExecute(cfg)
  \/ \E dims \in DimInputs, ok \in BOOLEAN : QueryBBox(dims, ok)
  \/ \E ds \in Datasets, ok \in BOOLEAN : Fetch(ds, ok)
  \/ \E ok \in BOOLEAN : BuildInit(ok)
  \/ \E ok \in BOOLEAN : BuildNode(ok)
  \/ NodesDone
  \/ \E ok \in BOOLEAN : BuildWay(ok)
  \/ WaysDone
  \/ Finalize
  \/ Return

Init ==
  /\ scn = EmptyStore
  /\ objects = <<>>
  /\ last = NoCall
  /\ pc = "idle"
  /\ imp = NoImport

Next == GeoNext \/ ImportNext

Spec == Init /\ [][Next]_vars

(***************************************************************************)
(* The same program on a scene whose store was persisted by an earlier     *)
(* session or edited as custom properties: any subset of the georeference  *)
(* keys, with a valid or an invalid CRS string.                            *)
(***************************************************************************)
Stores ==
  { [k \in ks |-> IF k = CRS THEN c ELSE 0] :
      ks \in SUBSET {CRS, LON, LAT, CRSX, CRSY}, c \in StoredCRSValues }

InitStore ==
  /\ scn \in Stores
  /\ objects = <<>>
  /\ last = NoCall
  /\ pc = "idle"
  /\ imp = NoImport

SpecStore == InitStore /\ [][Next]_vars

(***************************************************************************)
(* One import from file, from the scene without georeference, over the     *)
(* datasets SeedDatasets and the settings SeedConfigs.                     *)
(***************************************************************************)
NextSeed ==
  \/ \E exists \in BOOLEAN, cfg \in SeedConfigs : fileExecute(exists, cfg)
  \/ Validate
  \/ \E ds \in SeedDatasets, ok \in BOOLEAN : Parse(ds, ok)
  \/ \E utmOk \in BOOLEAN, ok \in BOOLEAN : EstablishCRS(utmOk, ok)
  \/ \E ok1 \in BOOLEAN, ok2 \in BOOLEAN : EstablishOrigin(ok1, ok2)
  \/ \E ok \in BOOLEAN : BuildInit(ok)
  \/ \E ok \in BOOLEAN : BuildNode(ok)
  \/ NodesDone
  \/ \E ok \in BOOLEAN : BuildWay(ok)
  \/ WaysDone
  \/ Finalize

SpecSeed == Init /\ [][NextSeed]_vars

(***************************************************************************)
(* The origin of a scene that holds an object is set and moved.  The       *)
(* origins set are those a move by MoveInputs, scaled or not, keeps within *)
(* MaxCoord.                                                               *)
(***************************************************************************)
MoveXInputs == {-1, 0}
MoveYInputs == {0, 1}

SceneObject == [name |-> "Cube", x |-> 0, y |-> 0, id |-> "", groups |-> {}]

InitMove ==
  /\ scn \in Stores
  /\ objects = << SceneObject >>
  /\ last = NoCall
  /\ pc = "idle"
  /\ imp = NoImport

NextMove ==
  \/ \E x \in MoveXInputs, y \in MoveYInputs, ok \in BOOLEAN : setOriginPrj(x, y, ok)
  \/ \E d \in MoveInputs, useScale \in BOOLEAN, updObjLoc \in BOOLEAN, ok \in BOOLEAN :
        moveOriginPrj(d[1], d[2], useScale, updObjLoc, ok)
  \/ \E v \in CRSInputs, ok \in BOOLEAN : setCRS(v, ok)
  \/ \E v \in ScaleInputs : setScale(v)

SpecMove == InitMove /\ [][NextMove]_vars

(***************************************************************************)
(* Properties                                                              *)
(***************************************************************************)
Has(s, k) == k \in DOMAIN s
GeoPresent(s) == Has(s, LON) /\ Has(s, LAT)
PrjPresent(s) == Has(s, CRSX) /\ Has(s, CRSY)
CrsAbsent(s) == ~Has(s, CRS)
CrsInvalid(s) == Has(s, CRS) /\ s[CRS] \notin ValidCRS
CrsValid(s) == Has(s, CRS) /\ s[CRS] \in ValidCRS
GeoOf(s) == <<s[LON], s[LAT]>>
PrjOf(s) == <<s[CRSX], s[CRSY]>>

\* the five georeference fields of s and t are stored alike
SameField(s, t, k) == (Has(s, k) <=> Has(t, k)) /\ (Has(s, k) => s[k] = t[k])
SameGeoref(s, t) == \A k \in {CRS, LON, LAT, CRSX, CRSY} : SameField(s, t, k)
SameOrigin(s, t) == \A k \in {LON, LAT, CRSX, CRSY} : SameField(s, t, k)

\* C1: isBroken is true exactly when the CRS is present but invalid, or the
\* CRS is absent and an origin is present, or the CRS is valid and the
\* geographic origin is present without the projected origin; so it is
\* false in the unset state and whenever a valid CRS has a projected origin.
C1_IsBrokenIff ==
  /\ isBroken(scn) <=>
        \/ CrsInvalid(scn)
        \/ CrsAbsent(scn) /\ (GeoPresent(scn) \/ PrjPresent(scn))
        \/ CrsValid(scn) /\ GeoPresent(scn) /\ ~PrjPresent(scn)
  /\ DOMAIN scn \cap {CRS, LON, LAT, CRSX, CRSY} = {} => ~isBroken(scn)
  /\ CrsValid(scn) /\ PrjPresent(scn) => ~isBroken(scn)

C1_Witness ==
  CrsValid(scn) /\ GeoPresent(scn) /\ ~PrjPresent(scn) /\ isBroken(scn)

\* C2: in every state with a valid CRS and both origins stored, the
\* projected origin is the reprojection of the geographic origin under the
\* stored CRS.
C2_OriginsMatch ==
  CrsValid(scn) /\ GeoPresent(scn) /\ PrjPresent(scn)
    => PrjOf(scn) = FromGeo(scn[CRS], GeoOf(scn))

\* C3: a setCRS call that fails, whatever the reason, leaves the CRS and both
\* origins as they were; the CRS changes only in a call that succeeds.
C3_SetCRSAllOrNothing ==
  [][ last'.op = "setCRS" =>
        /\ last'.res # "ok" => SameGeoref(scn, scn')
        /\ ~SameField(scn, scn', CRS) => last'.res = "ok" ]_vars

C3_Witness ==
  /\ last.op = "setCRS" /\ last.res = "ReprojectionFailure"
  /\ GeoPresent(scn) /\ PrjPresent(scn)

\* C4: a setOriginGeo call with lat outside [-90, 90] or lon outside
\* [-180, 180] fails with the range error of that argument and leaves the
\* stored longitude, latitude and projected origin as they were.
C4_RangeErrorKeepsOrigin ==
  [][ (last'.op = "setOriginGeo"
         /\ (last'.args[1] < -180 \/ last'.args[1] > 180
               \/ last'.args[2] < -90 \/ last'.args[2] > 90))
      => /\ last'.res \in {"LongitudeOutOfRange", "LatitudeOutOfRange"}
         /\ SameOrigin(scn, scn') ]_vars

\* C5: when the Reprojector fails inside setOriginGeo or setOriginPrj (the
\* arguments being in range), the call returns normally; setOriginGeo has
\* stored (lon, lat) and no projected origin is stored, setOriginPrj has
\* stored (x, y) and no geographic origin is stored.
C5_ReprojFailureContained ==
  /\ (last.op = "setOriginGeo" /\ last.rpf) =>
        /\ last.res = "ok"
        /\ GeoPresent(scn) /\ GeoOf(scn) = last.args
        /\ ~Has(scn, CRSX) /\ ~Has(scn, CRSY)
  /\ (last.op = "setOriginPrj" /\ last.rpf) =>
        /\ last.res = "ok"
        /\ PrjPresent(scn) /\ PrjOf(scn) = last.args
        /\ ~Has(scn, LON) /\ ~Has(scn, LAT)

C5_Witness ==
  last.op = "setOriginGeo" /\ last.rpf /\ CrsInvalid(scn) /\ GeoPresent(scn)

SevenOps == {"setCRS", "setOriginGeo", "setOriginPrj", "moveOriginPrj",
             "delOriginGeo", "delOriginPrj", "delOrigin"}

\* C6 as stated: each of the seven operations, applied to a state that is
\* not broken, leaves a state that is not broken.
C6_EveryOpKeepsUnbroken ==
  [][ (last'.op \in SevenOps /\ ~isBroken(scn)) => ~isBroken(scn') ]_vars

\* C6 amended: applied to a state that is not broken, setCRS, moveOriginPrj,
\* delOriginGeo and delOrigin leave a state that is not broken; so does
\* setOriginPrj when a CRS is stored, setOriginGeo when it returns normally
\* and its reprojection succeeded, and delOriginPrj when no geographic
\* origin is stored.
C6_OpsKeepUnbroken ==
  [][ ~isBroken(scn) =>
        /\ last'.op \in {"setCRS", "moveOriginPrj", "delOriginGeo", "delOrigin"}
             => ~isBroken(scn')
        /\ (last'.op = "setOriginPrj" /\ Has(scn, CRS)) => ~isBroken(scn')
        /\ (last'.op = "setOriginGeo" /\ last'.res = "ok" /\ ~last'.rpf)
             => ~isBroken(scn')
        /\ (last'.op = "delOriginPrj" /\ ~GeoPresent(scn)) => ~isBroken(scn') ]_vars

C6_Witness ==
  /\ last.op = "delOrigin" /\ CrsValid(scn) /\ ~isBroken(scn)

Range(f) == {f[i] : i \in DOMAIN f}

\* C7 as stated: an import (from file or from query) executed on a broken
\* georeference ends with the broken-georeference error, with nothing parsed
\* or fetched, no georeference field changed and no geometry produced.  The
\* two checks the operators make before they look at the georeference (the
\* file exists, the view is top ortho) are left aside.
C7_BrokenAborts ==
  (pc = "done" /\ imp.kind \in {"file", "query"} /\ isBroken(imp.scn0)
     /\ imp.report \notin {MsgInvalidFile, MsgTopOrtho})
  => /\ imp.report = MsgBroken
     /\ ~imp.parsed /\ ~imp.fetched
     /\ SameGeoref(imp.scn0, scn)
     /\ imp.built = <<>> /\ imp.out = <<>>

FileStages == <<"Validate", "Parse", "EstablishCRS", "EstablishOrigin", "Build",
                "Nodes", "Ways", "Finalize", "done">>

StageNo(p) ==
  IF p \in Range(FileStages)
  THEN CHOOSE i \in DOMAIN FileStages : FileStages[i] = p
  ELSE 0

\* C8: an import from file goes through its stages in order (validate,
\* parse, establish the CRS then the origin, filter and build, finalize), a
\* stage is left for the next one or for the end of the import; while
\* geometry is built the scene is georeferenced (valid CRS and projected
\* origin); when setting the CRS or computing the origin fails the import
\* ends and has built nothing.
C8_BuildOnGeoref ==
  [][ imp'.kind = "file" =>
        /\ (pc = "idle" /\ pc' # "idle") => pc' \in {"Validate", "done"}
        /\ (pc # "idle" /\ pc' # pc) =>
              (pc' = "done" \/ StageNo(pc') = StageNo(pc) + 1)
        /\ pc' \in {"Build", "Nodes", "Ways", "Finalize"} =>
              (CrsValid(scn') /\ PrjPresent(scn'))
        /\ (imp'.built # <<>> \/ imp'.out # <<>>) =>
              pc' \in {"Nodes", "Ways", "Finalize", "done"}
        /\ imp'.report \in {"InvalidCRS", "ReprojectionFailure", "CRSUpdateBlocked",
                             "exception in reprojPt"} =>
              (pc' = "done" /\ imp'.built = <<>> /\ imp'.out = <<>>) ]_vars

C8_Witness ==
  /\ imp.kind = "file" /\ pc = "Build"
  /\ ~Has(imp.scn0, CRS) /\ CrsValid(scn) /\ PrjPresent(scn)

\* C9: an import from query whose bounding box in scene CRS space is wider
\* or higher than 20000 units ends with the extent-too-large error, without
\* a fetch and without geometry; a fetch is issued only for a box of width
\* and height at most 20000.
C9_ExtentChecked ==
  imp.kind = "query" =>
    /\ (imp.dims[1] > 20000 \/ imp.dims[2] > 20000) =>
          /\ pc = "done" /\ imp.report = MsgTooLarge
          /\ ~imp.fetched /\ imp.built = <<>> /\ imp.out = <<>>
    /\ (pc = "Fetch" \/ imp.fetched) => (imp.dims[1] <= 20000 /\ imp.dims[2] <= 20000)

C9_Witness ==
  /\ imp.kind = "query" /\ pc = "done"
  /\ imp.dims = <<100, 20001>> /\ imp.report = MsgTooLarge

\* the features that pass the filters of build
Survivors(im) ==
  {im.result.nodes[n].id : n \in
     {q \in DOMAIN im.result.nodes :
        /\ "node" \in im.cfg.featureType
        /\ im.result.nodes[q].id \notin waysNodesId(im.result)
        /\ ~FilteredOut(im.cfg.filterTags, im.result.nodes[q].tags)}}
  \cup
  {im.result.ways[w].id : w \in
     {q \in DOMAIN im.result.ways :
        /\ "way" \in im.cfg.featureType
        /\ ~FilteredOut(im.cfg.filterTags, im.result.ways[q].tags)}}

\* C10 as stated: when building a feature fails, the import still finishes:
\* the feature is skipped, every other feature that passed the filters is
\* built, and the containers are emitted.
C10_FailureIsFeatureLocal ==
  (pc = "done" /\ imp.failed # <<>>) =>
    /\ imp.status = "finished"
    /\ Survivors(imp) \ Range(imp.failed) \subseteq Range(imp.built)
    /\ (Range(imp.built) # {} => imp.out # <<>>)

\* the feature the coming pass of the node loop (p = "Nodes") or of the way
\* loop looks at: its id, its tags and its points
Feature(im, p) ==
  IF p = "Nodes"
  THEN LET node == im.result.nodes[im.i]
       IN  [id |-> node.id, tags |-> node.tags, pts |-> << <<node.lon, node.lat>> >>]
  ELSE LET way == im.result.ways[im.i]
       IN  [id |-> way.id, tags |-> way.tags, pts |-> WayPts(im.result, way)]

\* the step is a call of seed that returned
Seeded == pc \in {"Nodes", "Ways"} /\ imp'.built # imp.built

\* the containers the step changed
Touched ==
  {n \in DOMAIN imp'.bmeshes : n \notin DOMAIN imp.bmeshes \/ imp'.bmeshes[n] # imp.bmeshes[n]}

\* the vertices the step gave to container n, or to the object of the feature
NewVerts(n) ==
  IF imp.cfg.separate
  THEN imp'.out[Len(imp'.out)].mesh.verts
  ELSE LET old == SetDefault(imp.bmeshes, n, NewMesh).verts
           new == imp'.bmeshes[n].verts
       IN  SubSeq(new, Len(old) + 1, Len(new))

\* the classification as the claim words it
Classify(pts, tags) ==
  IF Len(pts) = 1 THEN "Point"
  ELSE IF pts[1] = pts[Len(pts)] /\ (\E k \in DOMAIN tags : k \in closedWaysArePolygons)
  THEN "Polygon"
  ELSE "Line"

TypeName(kind) ==
  CASE kind = "Point" -> "Nodes" [] kind = "Polygon" -> "Areas" [] kind = "Line" -> "Ways"

\* the containers of a feature of the given kind in grouped mode
Targets(cfg, tags, kind) ==
  IF cfg.filterTags = {} THEN {TypeName(kind)}
  ELSE {TypeName(kind) \o ":" \o k : k \in cfg.filterTags \cap Extags(tags)}

\* the points in scene space
Local(pts) == ShiftPts(pts, crsOf(scn), scn[CRSX], scn[CRSY])

\* C11: every point list of one point or more, with any tags, is classified
\* in this order: one point is a Point; else first point = last point with a
\* key of closedWaysArePolygons among the tags is a Polygon, built on the
\* points without the closing one (one vertex fewer than the input); else a
\* Line on all the points, the closing point of a closed way included.  In
\* grouped mode the feature goes to the containers named after its type.
C11_Classified ==
  [][ /\ \A w \in DOMAIN imp.result.ways :
           LET pts == WayPts(imp.result, imp.result.ways[w])
               tags == imp.result.ways[w].tags
           IN  /\ SeedType(pts, tags) = TypeName(Classify(pts, tags))
               /\ Len(SeedPts(pts, tags)) =
                    IF Classify(pts, tags) = "Polygon" THEN Len(pts) - 1 ELSE Len(pts)
      /\ Seeded =>
           LET f == Feature(imp, pc)
               n == Len(f.pts)
               kind == Classify(f.pts, f.tags)
               names == IF imp.cfg.separate THEN {""} ELSE Targets(imp.cfg, f.tags, kind)
           IN  /\ ~imp.cfg.separate => Touched = names
               /\ \A c \in names :
                    CASE kind = "Point" -> NewVerts(c) = Local(f.pts)
                      [] kind = "Polygon" -> NewVerts(c) = SubSeq(Local(f.pts), 1, n - 1)
                      [] kind = "Line" -> /\ Range(NewVerts(c)) = Range(Local(f.pts))
                                          /\ Len(NewVerts(c)) >= n ]_vars

\* a closed street, which has no polygon key, was built as a Line
C11_Witness ==
  /\ pc = "Ways" /\ imp.built = <<10>>
  /\ imp.result.ways[1].nodes = <<1, 2, 3, 1>>
  /\ "highway" \in DOMAIN imp.result.ways[1].tags
  /\ ~imp.cfg.separate /\ imp.cfg.filterTags = {}
  /\ DOMAIN imp.bmeshes = {"Ways"}

\* the faces the step gave to container n, or to the object of the feature,
\* as indices into NewVerts(n)
NewFaces(n) ==
  IF imp.cfg.separate
  THEN imp'.out[Len(imp'.out)].mesh.faces
  ELSE LET old == SetDefault(imp.bmeshes, n, NewMesh)
           new == imp'.bmeshes[n]
           fs == SubSeq(new.faces, Len(old.faces) + 1, Len(new.faces))
       IN  [i \in DOMAIN fs |-> [j \in DOMAIN fs[i] |-> fs[i][j] - Len(old.verts)]]

Distinct(s) == \A i, j \in DOMAIN s : i # j => s[i] # s[j]

\* C12: a closed way classified as Polygon, with n >= 3 distinct vertices
\* once the closing point is dropped and a non-zero area, is built as
\* exactly one face over exactly those n vertices, and the vertices of the
\* face are in anticlockwise order (positive signed area) whether the
\* input was clockwise or anticlockwise.
C12_FaceUp ==
  [][ Seeded =>
        LET f == Feature(imp, pc)
            kind == Classify(f.pts, f.tags)
            ring == SubSeq(Local(f.pts), 1, Len(f.pts) - 1)
            n == Len(ring)
            names == IF imp.cfg.separate THEN {""} ELSE Targets(imp.cfg, f.tags, kind)
        IN  (kind = "Polygon" /\ n >= 3 /\ Distinct(ring) /\ Area2(ring, 1) # 0) =>
              \A c \in names :
                 /\ NewVerts(c) = ring
                 /\ Len(NewFaces(c)) = 1
                 /\ LET face == NewFaces(c)[1]
                        at == [j \in DOMAIN face |-> NewVerts(c)[face[j] + 1]]
                    IN  /\ Len(face) = n
                        /\ Range(face) = 0..(n - 1)
                        /\ Area2(at, 1) > 0 ]_vars

\* the square given clockwise was built after the square given anticlockwise
C12_Witness ==
  /\ imp.result = DS4 /\ imp.built = <<50, 51>>
  /\ ~imp.cfg.separate /\ imp.cfg.filterTags = {}
  /\ imp.bmeshes["Areas"].faces = << <<0, 1, 2, 3>>, <<7, 6, 5, 4>> >>

\* the edges the step gave to container n, or to the object of the feature,
\* as indices into NewVerts(n)
NewEdges(n) ==
  IF imp.cfg.separate
  THEN imp'.out[Len(imp'.out)].mesh.edges
  ELSE LET old == SetDefault(imp.bmeshes, n, NewMesh)
           new == imp'.bmeshes[n]
           es == SubSeq(new.edges, Len(old.edges) + 1, Len(new.edges))
       IN  [i \in DOMAIN es |-> <<es[i][1] - Len(old.verts), es[i][2] - Len(old.verts)>>]

\* C13: a feature classified as Line with n >= 2 points is built as exactly
\* n-1 edges, edge i between pts[i] and pts[i+1] in input order, each edge
\* on two vertices of its own: 2*(n-1) vertices, no vertex shared by two
\* edges, never one chain over n vertices.
C13_EdgePerSegment ==
  [][ Seeded =>
        LET f == Feature(imp, pc)
            kind == Classify(f.pts, f.tags)
            loc == Local(f.pts)
            n == Len(f.pts)
            names == IF imp.cfg.separate THEN {""} ELSE Targets(imp.cfg, f.tags, kind)
        IN  (kind = "Line" /\ n >= 2) =>
              \A c \in names :
                 LET vs == NewVerts(c)
                     es == NewEdges(c)
                 IN  /\ Len(es) = n - 1
                     /\ Len(vs) = 2 * (n - 1)
                     /\ NewFaces(c) = <<>>
                     /\ \A i \in 1..(n - 1) :
                          /\ es[i][1] # es[i][2]
                          /\ vs[es[i][1] + 1] = loc[i]
                          /\ vs[es[i][2] + 1] = loc[i + 1]
                     /\ \A i, j \in 1..(n - 1) :
                          i # j => {es[i][1], es[i][2]} \cap {es[j][1], es[j][2]} = {}
                     /\ UNION {{es[i][1], es[i][2]} : i \in 1..(n - 1)}
                          = 0..(2 * (n - 1) - 1) ]_vars

\* the street of three points is in its container as two edges on four vertices
C13_Witness ==
  /\ imp.result = DS3 /\ imp.built = <<30>>
  /\ ~imp.cfg.separate /\ imp.cfg.filterTags = {}
  /\ Len(imp.bmeshes["Ways"].verts) = 4
  /\ imp.bmeshes["Ways"].edges = << <<0, 1>>, <<2, 3>> >>

\* the node id is in the node list of a way of the dataset
RefByWay(result, id) ==
  \E w \in DOMAIN result.ways :
     \E i \in DOMAIN result.ways[w].nodes : result.ways[w].nodes[i] = id

\* a bare key or a key=value pair of the tags is selected, or nothing is
Passes(filterTags, tags) ==
  \/ filterTags = {}
  \/ \E k \in DOMAIN tags : k \in filterTags \/ (k \o "=" \o tags[k]) \in filterTags

\* the containers of points
PointContainers(meshes) ==
  {n \in DOMAIN meshes : Len(n) >= 5 /\ SubSeq(n, 1, 5) = "Nodes"}

\* the import went through build to its end
Completed == pc = "done" /\ imp.status = "finished" /\ imp.report = ""

\* C14: a node whose id is in the node list of a way never gives a point of
\* its own, whatever its tags (selected by the tag filter or not), the
\* selected feature types and the mode; every other node, when nodes are
\* selected and it passes the tag filter, gives a point in an import that
\* runs to its end.
C14_WayNodesAreNotPoints ==
  \A q \in DOMAIN imp.result.nodes :
     LET node == imp.result.nodes[q]
         pt == Local(<< <<node.lon, node.lat>> >>)[1]
     IN  /\ RefByWay(imp.result, node.id) =>
              /\ node.id \notin Range(imp.built)
              /\ \A o \in DOMAIN imp.out : imp.out[o].id # ToString(node.id)
              /\ (\A w \in DOMAIN imp.result.ways : Len(imp.result.ways[w].nodes) >= 2) =>
                    \A c \in PointContainers(imp.bmeshes) :
                       pt \notin Range(imp.bmeshes[c].verts)
         /\ (/\ Completed
             /\ ~RefByWay(imp.result, node.id)
             /\ "node" \in imp.cfg.featureType
             /\ Passes(imp.cfg.filterTags, node.tags)) =>
              /\ node.id \in Range(imp.built)
              /\ IF imp.cfg.separate
                 THEN \E o \in DOMAIN imp.out :
                         /\ imp.out[o].id = ToString(node.id)
                         /\ imp.out[o].mesh.verts = <<pt>>
                 ELSE \A c \in Targets(imp.cfg, node.tags, "Point") :
                         \E o \in DOMAIN imp.out :
                            /\ imp.out[o].name = c
                            /\ pt \in Range(imp.out[o].mesh.verts)

\* the tagged node is selected by the filter, and skipped as a node of the way
C14_Witness ==
  /\ pc = "Ways" /\ imp.result.nodes = GridNodes
  /\ imp.result.ways[1].nodes = <<3, 1>>
  /\ imp.cfg.filterTags # {} /\ "node" \in imp.cfg.featureType
  /\ 3 \in Range(imp.skipped) /\ imp.built = <<>>

\* the feature of the dataset with the given id: a node or a way
FeatureOf(result, id) ==
  IF \E q \in DOMAIN result.nodes : result.nodes[q].id = id
  THEN LET node == NodeById(result, id)
       IN  [id |-> id, tags |-> node.tags, pts |-> << <<node.lon, node.lat>> >>]
  ELSE LET way == result.ways[CHOOSE w \in DOMAIN result.ways : result.ways[w].id = id]
       IN  [id |-> id, tags |-> way.tags, pts |-> WayPts(result, way)]

\* the number of vertices of a feature: one for a Point, the points without
\* the closing one for a Polygon, two for every segment of a Line
VCount(f) ==
  LET n == Len(f.pts)
      kind == Classify(f.pts, f.tags)
  IN  CASE kind = "Point" -> 1 [] kind = "Polygon" -> n - 1 [] kind = "Line" -> 2 * (n - 1)

\* the containers feature f is merged into
InTargets(im, f) == Targets(im.cfg, f.tags, Classify(f.pts, f.tags))

\* the membership groups of the tags and of the name of a feature
TagGroups(f) ==
  {"Tag:" \o k : k \in {q \in DOMAIN f.tags : ~StartsWithName(q)}}
  \cup {"Tag:" \o k \o "=" \o f.tags[k] : k \in {q \in DOMAIN f.tags : ~StartsWithName(q)}}
  \cup (IF "name" \in DOMAIN f.tags THEN {"Name:" \o f.tags["name"]} ELSE {})

\* the membership groups of the relations with the feature among their
\* members: the name tag of the relation, or its id
RelationGroups(result, f) ==
  {"Relation:" \o (IF "name" \in DOMAIN result.relations[r].tags
                    THEN result.relations[r].tags["name"]
                    ELSE ToString(result.relations[r].id)) :
     r \in {q \in DOMAIN result.relations :
              \E m \in DOMAIN result.relations[q].members :
                 result.relations[q].members[m] = f.id}}

RECURSIVE OffsetOf(_, _, _)
\* the number of vertices merged into container c before the i-th built feature
OffsetOf(im, c, i) ==
  IF i <= 1 THEN 0
  ELSE LET f == FeatureOf(im.result, im.built[i - 1])
       IN  OffsetOf(im, c, i - 1) + (IF c \in InTargets(im, f) THEN VCount(f) ELSE 0)

\* the vertex indices of the i-th built feature in container c
IndexRange(im, c, i) ==
  LET f == FeatureOf(im.result, im.built[i])
  IN  IF c \in InTargets(im, f)
      THEN OffsetOf(im, c, i)..(OffsetOf(im, c, i) + VCount(f) - 1)
      ELSE {}

\* the vertex indices recorded in group g of container c
Recorded(im, c, g) ==
  IF c \in DOMAIN im.vgroupsObj /\ g \in DOMAIN im.vgroupsObj[c]
  THEN Range(im.vgroupsObj[c][g])
  ELSE {}

\* C15 as stated: in grouped mode the vertices of the features merged into a
\* container follow each other, each feature from the offset that is the sum
\* of the vertex counts of the features merged before it, and a membership
\* group of a tag or a name holds exactly the index ranges of the features
\* of the container that carry it.
C15_GroupsCoverRanges ==
  ~imp.cfg.separate =>
    \A c \in DOMAIN imp.bmeshes :
       /\ Len(imp.bmeshes[c].verts) = OffsetOf(imp, c, Len(imp.built) + 1)
       /\ \A i \in DOMAIN imp.built :
            LET f == FeatureOf(imp.result, imp.built[i])
            IN  \A g \in TagGroups(f) :
                   c \in InTargets(imp, f) =>
                     Recorded(imp, c, g) =
                       UNION {IndexRange(imp, c, j) :
                                j \in {q \in DOMAIN imp.built :
                                         g \in TagGroups(FeatureOf(imp.result, imp.built[q]))}}

\* C16 as stated: in grouped mode with a tag filter, a feature that matches
\* several selected tags is in the container of each of them, and in each of
\* these containers its vertex indices are in the groups of its tags and of
\* its name; no container holds a vertex that is in none of its groups.
C16_EveryContainerRecords ==
  (~imp.cfg.separate /\ imp.cfg.filterTags # {}) =>
    /\ \A i \in DOMAIN imp.built :
         LET f == FeatureOf(imp.result, imp.built[i])
         IN  \A c \in InTargets(imp, f) :
                /\ c \in DOMAIN imp.bmeshes
                /\ \A g \in TagGroups(f) : IndexRange(imp, c, i) \subseteq Recorded(imp, c, g)
    /\ \A c \in DOMAIN imp.bmeshes :
         \A v \in 0..(Len(imp.bmeshes[c].verts) - 1) :
            \E g \in DOMAIN SetDefault(imp.vgroupsObj, c, NoGroups) :
               v \in Recorded(imp, c, g)

\* the membership groups of relations in container c
RelGroupsIn(im, c) ==
  {g \in DOMAIN SetDefault(im.vgroupsObj, c, NoGroups) :
     Len(g) >= 9 /\ SubSeq(g, 1, 9) = "Relation:"}

\* the vertex indices in container c of the built features that a relation
\* of group g has among its members
MembersRange(im, c, g) ==
  UNION {IndexRange(im, c, j) :
           j \in {q \in DOMAIN im.built :
                    g \in RelationGroups(im.result, FeatureOf(im.result, im.built[q]))}}

\* C17 as stated: in grouped mode, for every merged feature and every
\* relation with the id of the feature among its members, the vertex indices
\* of the feature are in a group named after the name tag of the relation,
\* or after its id without a name tag; a feature no relation refers to is
\* in no relation group.
C17_EveryRelationGrouped ==
  ~imp.cfg.separate =>
    \A c \in DOMAIN imp.bmeshes :
       /\ \A i \in DOMAIN imp.built :
            LET f == FeatureOf(imp.result, imp.built[i])
            IN  \A g \in RelationGroups(imp.result, f) :
                   IndexRange(imp, c, i) \subseteq Recorded(imp, c, g)
       /\ \A g \in RelGroupsIn(imp, c) : Recorded(imp, c, g) \subseteq MembersRange(imp, c, g)

\* C17 amended: in grouped mode with 'relation' among the selected feature
\* types, for every merged feature that has one container (no tag filter, or
\* one selected tag matching) and every relation with the id of the feature
\* among its members, the vertex indices of the feature are in the group
\* named after the name tag of the relation, or after its id without a name
\* tag; a relation group holds vertices of members of the relation only;
\* without 'relation' among the selected types there is no relation group.
C17_RelationGroups ==
  ~imp.cfg.separate =>
    \A c \in DOMAIN imp.bmeshes :
       IF "relation" \in imp.cfg.featureType
       THEN /\ \A i \in DOMAIN imp.built :
                 LET f == FeatureOf(imp.result, imp.built[i])
                 IN  InTargets(imp, f) = {c} =>
                       \A g \in RelationGroups(imp.result, f) :
                          IndexRange(imp, c, i) \subseteq Recorded(imp, c, g)
            /\ \A g \in RelGroupsIn(imp, c) :
                 Recorded(imp, c, g) \subseteq MembersRange(imp, c, g)
       ELSE RelGroupsIn(imp, c) = {}

\* the three streets are in one container; the named relation holds the
\* first two, the relation without name the second under its id
C17_Witness ==
  /\ imp.result = DS3 /\ imp.built = <<30, 31, 32>>
  /\ ~imp.cfg.separate /\ imp.cfg.filterTags = {}
  /\ "relation" \in imp.cfg.featureType
  /\ imp.vgroupsObj["Ways"]["Relation:Route"] = <<0, 1, 2, 3, 4, 5>>
  /\ imp.vgroupsObj["Ways"]["Relation:41"] = <<4, 5>>

\* C18: a setCRS call that succeeds on a state with a geographic origin
\* leaves the geographic origin as it was and stores as projected origin the
\* reprojection of the geographic origin from 4326 to the new CRS, whether
\* or not a projected origin was stored, whatever it was, and whether the
\* CRS before was absent, invalid or valid.
C18_PrjFromGeo ==
  [][ (last'.op = "setCRS" /\ last'.res = "ok" /\ GeoPresent(scn)) =>
        /\ GeoPresent(scn') /\ GeoOf(scn') = GeoOf(scn)
        /\ CrsValid(scn') /\ PrjPresent(scn')
        /\ PrjOf(scn') = FromGeo(scn'[CRS], GeoOf(scn)) ]_vars

C18_Witness ==
  /\ last.op = "setCRS" /\ last.res = "ok"
  /\ GeoPresent(scn) /\ GeoOf(scn) = <<10, 0>>
  /\ scn[CRS] = WEBM /\ PrjPresent(scn) /\ PrjOf(scn) = <<-10, 0>>

\* C19: with a projected origin and no geographic origin stored, a setCRS
\* call with a value that parses succeeds only if the CRS stored before is
\* present and valid, and the projected origin is then its reprojection from
\* the CRS before to the new one; with the CRS before absent or invalid the
\* call fails with the CRS-update-blocked error and leaves the CRS and the
\* projected origin as they were.
C19_PrjOnlyNeedsValidCRS ==
  [][ (/\ last'.op = "setCRS"
       /\ PrjPresent(scn) /\ ~GeoPresent(scn)
       /\ SRSParse(last'.args[1]) # "") =>
        /\ last'.res = "ok" =>
              /\ CrsValid(scn)
              /\ scn'[CRS] = SRSParse(last'.args[1])
              /\ PrjOf(scn') = FromGeo(scn'[CRS], ToGeo(scn[CRS], PrjOf(scn)))
        /\ ~CrsValid(scn) =>
              /\ last'.res = "CRSUpdateBlocked"
              /\ \A k \in {CRS, CRSX, CRSY} : SameField(scn, scn', k) ]_vars

C19_Witness ==
  /\ last.op = "setCRS" /\ last.res = "CRSUpdateBlocked"
  /\ PrjPresent(scn) /\ ~GeoPresent(scn) /\ CrsInvalid(scn)

\* C20: from any state, broken or not, a setCRS call that returns
\* successfully ends in a state where isBroken is false and hasValidCRS is
\* true; a broken state stays broken over a setCRS call only when the call
\* fails.
C20_SetCRSRepairs ==
  [][ last'.op = "setCRS" =>
        /\ last'.res = "ok" => (~isBroken(scn') /\ hasValidCRS(scn'))
        /\ (isBroken(scn) /\ isBroken(scn')) => last'.res # "ok" ]_vars

C20_Witness ==
  /\ last.op = "setCRS" /\ last.res = "ok" /\ last.args = <<"EPSG:3857">>
  /\ scn[CRS] = WEBM /\ GeoPresent(scn) /\ PrjPresent(scn) /\ ~isBroken(scn)
  /\ GeoOf(scn) = <<0, 0>>

\* the projected origin a move by the arguments args leaves on store s
MoveTarget(s, args) ==
  LET k == IF args[3] THEN (IF Has(s, SCALE) THEN s[SCALE] ELSE 1) ELSE 1
  IN  <<s[CRSX] + args[1] * k, s[CRSY] + args[2] * k>>

\* every object is shifted by (-dx, -dy) when updateOffsets is set, and
\* none is moved when it is not
OffsetsFollow(args) ==
  /\ DOMAIN objects' = DOMAIN objects
  /\ \A i \in DOMAIN objects :
       IF args[4]
       THEN /\ objects'[i].x = objects[i].x - args[1]
            /\ objects'[i].y = objects[i].y - args[2]
       ELSE objects'[i] = objects[i]

\* C21 as stated: on a scene with a projected origin (x, y) and scale s,
\* moveOriginPrj(dx, dy, useScale, updateOffsets) stores the projected
\* origin (x + dx*s, y + dy*s) with useScale and (x + dx, y + dy) without,
\* stores the geographic origin derived from the new projected origin, and
\* shifts every object by (-dx, -dy) when updateOffsets is set, none
\* otherwise.
C21_MoveRederivesGeo ==
  [][ (last'.op = "moveOriginPrj" /\ PrjPresent(scn)) =>
        /\ PrjPresent(scn') /\ PrjOf(scn') = MoveTarget(scn, last'.args)
        /\ GeoPresent(scn') /\ CrsValid(scn')
        /\ GeoOf(scn') = ToGeo(scn'[CRS], PrjOf(scn'))
        /\ OffsetsFollow(last'.args) ]_vars

\* C21 amended: the projected origin and the objects are as stated; the
\* geographic origin is the one derived from the new projected origin when
\* the reprojection to 4326 succeeds with a longitude and a latitude in
\* range, and is deleted when it does not (CRS absent or invalid, transform
\* undefined).
C21_MoveOrigin ==
  [][ (last'.op = "moveOriginPrj" /\ PrjPresent(scn)) =>
        /\ PrjPresent(scn') /\ PrjOf(scn') = MoveTarget(scn, last'.args)
        /\ SameField(scn, scn', CRS)
        /\ IF /\ CrsValid(scn) /\ ~last'.rpf
              /\ lonOK(ToGeo(scn[CRS], PrjOf(scn'))[1])
              /\ latOK(ToGeo(scn[CRS], PrjOf(scn'))[2])
           THEN GeoPresent(scn') /\ GeoOf(scn') = ToGeo(scn[CRS], PrjOf(scn'))
           ELSE ~Has(scn', LON) /\ ~Has(scn', LAT)
        /\ OffsetsFollow(last'.args) ]_vars

\* a move by (1, -1) with scale 2 took the origin from (-1, 1) to (1, -1),
\* the geographic origin follows, the object went the other way unscaled
C21_Witness ==
  /\ last.op = "moveOriginPrj" /\ last.args = <<1, -1, TRUE, TRUE>>
  /\ Has(scn, SCALE) /\ scn[SCALE] = 2
  /\ PrjPresent(scn) /\ PrjOf(scn) = <<1, -1>>
  /\ CrsValid(scn) /\ GeoPresent(scn) /\ GeoOf(scn) = ToGeo(scn[CRS], <<1, -1>>)
  /\ objects[1].x = -1 /\ objects[1].y = 1

\* C22: an import from file establishes only what is missing.  A CRS that
\* is set when the import starts is the CRS of the scene at every later step
\* of the import, and so is a projected origin that is set.  The CRS changes
\* only in the CRS step, on a scene without a CRS, to the UTM code of the
\* centroid of the dataset bounds; the projected origin changes only in the
\* origin step, on a scene without a projected origin, to the centroid
\* reprojected to the scene CRS.
C22_OnlyMissingEstablished ==
  [][ (imp.kind = "file" /\ pc # "idle") =>
        /\ Has(imp.scn0, CRS) => SameField(imp.scn0, scn', CRS)
        /\ PrjPresent(imp.scn0) =>
              (PrjPresent(scn') /\ PrjOf(scn') = PrjOf(imp.scn0))
        /\ ~SameField(scn, scn', CRS) =>
              /\ pc = "EstablishCRS" /\ ~Has(scn, CRS) /\ Has(scn', CRS)
              /\ LET c == Centroid(imp.result)
                 IN  scn'[CRS] = SRSParse(lonlat_to_epsg(c[1], c[2], TRUE))
        /\ (~SameField(scn, scn', CRSX) \/ ~SameField(scn, scn', CRSY)) =>
              /\ pc = "EstablishOrigin" /\ ~PrjPresent(scn) /\ PrjPresent(scn')
              /\ PrjOf(scn') = FromGeo(scn[CRS], Centroid(imp.result)) ]_vars

\* an import that found a CRS other than the UTM one and no projected
\* origin is past both steps: the CRS is the one found, the origin is set
C22_Witness ==
  /\ imp.kind = "file" /\ pc = "Build"
  /\ Has(imp.scn0, CRS) /\ imp.scn0[CRS] # UTM31 /\ ~PrjPresent(imp.scn0)
  /\ Has(scn, CRS) /\ scn[CRS] = imp.scn0[CRS]
  /\ PrjPresent(scn) /\ PrjOf(scn) = FromGeo(scn[CRS], Centroid(imp.result))

\* the keys the claim names
PolygonKeys == {"building", "landuse", "natural", "waterway"}

\* C23: building, landuse, natural and waterway are keys of
\* closedWaysArePolygons: a closed way (first point = last point) of four
\* points or more whose only tag key is one of the four is classified as a
\* Polygon, and in grouped mode without a tag filter it is merged into Areas.
C23_FourKeysArePolygons ==
  [][ Seeded =>
        LET f == Feature(imp, pc)
        IN  (/\ Len(f.pts) >= 4 /\ f.pts[1] = f.pts[Len(f.pts)]
             /\ Cardinality(DOMAIN f.tags) = 1 /\ DOMAIN f.tags \subseteq PolygonKeys) =>
              /\ DOMAIN f.tags \subseteq closedWaysArePolygons
              /\ SeedType(f.pts, f.tags) = "Areas"
              /\ (~imp.cfg.separate /\ imp.cfg.filterTags = {}) =>
                    Touched = {"Areas"} ]_vars

\* C24: a feature of two points or more is never turned into a Point,
\* whatever its tags, closed ways that keep one or two points once the
\* closing point is removed included: it is merged into no Nodes container
\* and the primitive built for it has an edge or a face, it is never a lone
\* vertex.
C24_NeverALoneVertex ==
  [][ (Seeded /\ Len(Feature(imp, pc).pts) >= 2) =>
        /\ ~imp.cfg.separate => Touched \cap PointContainers(imp'.bmeshes) = {}
        /\ \A c \in (IF imp.cfg.separate THEN {""} ELSE Touched) :
              NewEdges(c) # <<>> \/ NewFaces(c) # <<>> ]_vars

\* the vertex indices recorded in the membership groups of container c
GroupIndices(im, c) ==
  UNION {Range(im.vgroupsObj[c][g]) : g \in DOMAIN im.vgroupsObj[c]}

\* C25: in grouped mode, after any sequence of merges, membership groups
\* are recorded only under names of containers that exist, and every vertex
\* index in a group of a container is an index of that container: at least
\* 0 and less than the number of vertices merged into it so far.
C25_GroupIndicesValid ==
  ~imp.cfg.separate =>
    /\ DOMAIN imp.vgroupsObj \subseteq DOMAIN imp.bmeshes
    /\ \A c \in DOMAIN imp.vgroupsObj :
         \A v \in GroupIndices(imp, c) :
            0 <= v /\ v < Len(imp.bmeshes[c].verts)

\* the third street of the dataset has gone into two containers after two
\* others: a group of a container holds the index of its last vertex
C25_Witness ==
  /\ pc = "Ways" /\ ~imp.cfg.separate
  /\ imp.cfg.filterTags = {"building", "highway"}
  /\ imp.built = <<30, 31, 32>>
  /\ \E c \in DOMAIN imp.vgroupsObj :
        /\ Len(imp.bmeshes[c].verts) > 2
        /\ Len(imp.bmeshes[c].verts) - 1 \in GroupIndices(imp, c)

====
